---- MODULE Spec2Model ----
(***************************************************************************)
(* Model of run.py, the launcher of the Booking service.                   *)
(*                                                                         *)
(* The launcher is one sequential process (main).  Its position is pc.     *)
(* The two children it may spawn (npm install, npm start / npm run dev)    *)
(* are processes of their own: they exit by themselves (InstallExit,       *)
(* SvcExit) and the launcher observes that when its blocking call returns. *)
(* An interactive interrupt (SIGINT, raised by Python as KeyboardInterrupt *)
(* at the launcher's current position) is an event of the environment      *)
(* that can arrive at every position of main.                              *)
(*                                                                         *)
(* Strings that the program converts (the --port argument, the PORT        *)
(* variable) are sequences of one-character strings, so that int() and     *)
(* str() are computed, digit by digit, as Python computes them.            *)
(***************************************************************************)
EXTENDS Integers, Sequences, FiniteSets, TLC

VARIABLES
    \* ---- inputs of the run (fixed at start) ----
    argv,           \* command line: [dev, force_install : BOOLEAN, port : <<>> or <<text>>]
    osName,         \* os.name
    onPath,         \* the command names shutil.which resolves
    dirExists,      \* os.path.isdir("node_modules")
    osEnviron,      \* os.environ of the launcher: variable name -> text
    \* ---- locals of main ----
    pc,             \* position of main
    args,           \* the Namespace returned by parse_args: <<>> before, <<record>> after
    need_install,   \* line 29
    code,           \* line 32: <<>> or <<returncode of npm install>>
    env,            \* lines 36-37: the copy handed to Popen
    cmd,            \* line 39
    procBound,      \* the local name proc is bound (Popen returned)
    returncode,     \* proc.returncode: <<>> or <<n>>
    exit,           \* exit status of the launcher: <<>> while it runs, <<n>> after
    \* ---- the children ----
    install,        \* "none", "running", "exited"
    installResult,  \* <<>> or <<"exit", n>> or <<"signal", s>>
    svc,            \* "none", "running", "exited"
    svcResult,
    svcCmd,         \* argv the service child was started with
    childEnv,       \* environment the service child was started with
    \* ---- history ----
    installSpawns,  \* number of npm install processes started
    svcSpawns,      \* number of service processes started
    installWaited,  \* subprocess.call reaped the install child
    installKilled,  \* subprocess.call sent kill() to the install child
    svcWaited,      \* proc.wait() returned
    svcTermRequested, \* proc.terminate() was called on the service child
    termRaised,     \* the statement proc.terminate() raised (and was swallowed)
    intrAt,         \* positions of main at which interrupts arrived, in order
    reached         \* positions of main that were entered

vars == <<argv, osName, onPath, dirExists, osEnviron, pc, args, need_install,
          code, env, cmd, procBound, returncode, exit, install, installResult,
          svc, svcResult, svcCmd, childEnv, installSpawns, svcSpawns,
          installWaited, installKilled, svcWaited, svcTermRequested,
          termRaised, intrAt, reached>>

inputs == <<argv, osName, onPath, dirExists, osEnviron>>
children == <<install, installResult, svc, svcResult, svcCmd, childEnv,
              installSpawns, svcSpawns>>
locals == <<args, need_install, code, env, cmd, procBound, returncode>>
history == <<installWaited, installKilled, svcWaited, svcTermRequested, termRaised>>

-----------------------------------------------------------------------------
(* Bounds and constants *)

\* Number of interrupts the environment may deliver in one run.
MaxInterrupts == 2

\* default=3001 of --port
DefaultPort == 3001

\* POSIX keeps the low 8 bits of the value given to sys.exit.
ExitModulus == 256

\* argparse's exit status for a usage error (parser.error).
UsageError == 2

SIGINT == 2
SIGKILL == 9
SIGTERM == 15

\* Ways a child can end: exit(n), or death by a signal.
ChildOutcomes ==
    {<<"exit", n>> : n \in {0, 1, 2, 255}} \cup {<<"signal", s>> : s \in {SIGINT, SIGTERM}}

\* Status of the interpreter when KeyboardInterrupt leaves main uncaught:
\* 1 (traceback, Python < 3.8) or death by SIGINT, which a shell reports as
\* 128 + 2 (Python >= 3.8).
UncaughtInterruptStatus == {1, 128 + SIGINT}

\* Texts given after --port on the command line.
PortTexts ==
    { <<"8","0","8","0">>, <<"0">>, <<"-","5">>, <<"0","8","0">>, <<"+","7">>,
      <<"1">>, <<"a","b">>, <<"-">> }

Environments ==
    { [v \in {} |-> <<>>],
      [v \in {"HOME"} |-> <<"/","r">>],
      [v \in {"PORT"} |-> <<"9","0">>],
      [v \in {"PORT", "HOME"} |-> IF v = "PORT" THEN <<"9","0">> ELSE <<"/","r">>] }

-----------------------------------------------------------------------------
(* Pure functions *)

Digits == <<"0","1","2","3","4","5","6","7","8","9">>
IsDigit(c) == \E d \in 1..10 : Digits[d] = c
DigitVal(c) == (CHOOSE d \in 1..10 : Digits[d] = c) - 1

\* int(text) as argparse applies it (type=int): an optional sign followed by
\* at least one digit; anything else raises ValueError.
IsIntText(s) ==
    LET body == IF Len(s) > 0 /\ s[1] \in {"-", "+"} THEN Tail(s) ELSE s
    IN  Len(body) > 0 /\ \A i \in 1..Len(body) : IsDigit(body[i])

RECURSIVE NatOf(_)
NatOf(s) == IF s = <<>> THEN 0
            ELSE NatOf(SubSeq(s, 1, Len(s) - 1)) * 10 + DigitVal(s[Len(s)])

int(s) == IF s[1] = "-" THEN 0 - NatOf(Tail(s))
          ELSE IF s[1] = "+" THEN NatOf(Tail(s))
          ELSE NatOf(s)

\* str(n) for an int: decimal digits, most significant first, "-" if negative.
RECURSIVE StrNat(_)
StrNat(n) == IF n < 10 THEN <<Digits[n + 1]>>
             ELSE StrNat(n \div 10) \o <<Digits[(n % 10) + 1]>>

str(n) == IF n < 0 THEN <<"-">> \o StrNat(0 - n) ELSE StrNat(n)

\* exe (lines 9-10)
exe(name) == IF osName = "nt" THEN name \o ".cmd" ELSE name

\* check_cmd (lines 12-13)
check_cmd(c) == c \in onPath

\* Popen.returncode / the value of subprocess.call for a child that ended.
Returncode(result) == IF result[1] = "exit" THEN result[2] ELSE 0 - result[2]

\* The status the operating system records for sys.exit(n).
ExitStatus(n) == n % ExitModulus

\* line 29
NeedInstall_and(force, isdir) == force /\ ~isdir

NeedInstall(force, isdir) == force \/ ~isdir

\* lines 36-37: os.environ.copy() with PORT set
ChildEnvironment_setdefault(environ, port) ==
    [v \in (DOMAIN environ) \cup {"PORT"} |->
        IF v \in DOMAIN environ THEN environ[v] ELSE str(port)]

ChildEnvironment(environ, port) ==
    [v \in (DOMAIN environ) \cup {"PORT"} |->
        IF v = "PORT" THEN str(port) ELSE environ[v]]

\* line 39
Command(dev) == IF dev THEN <<exe("npm"), "run", "dev">> ELSE <<exe("npm"), "start">>

-----------------------------------------------------------------------------
(* Initial state: the launcher has been started, main has not run yet. *)

Init ==
    /\ argv \in [dev : BOOLEAN, force_install : BOOLEAN,
                 port : {<<>>} \cup {<<t>> : t \in PortTexts}]
    /\ osName \in {"posix", "nt"}
    /\ onPath \in SUBSET {"node", "npm", "npm.cmd"}
    /\ dirExists \in BOOLEAN
    /\ osEnviron \in Environments
    /\ pc = "parse"
    /\ args = <<>>
    /\ need_install = FALSE
    /\ code = <<>>
    /\ env = <<>>
    /\ cmd = <<>>
    /\ procBound = FALSE
    /\ returncode = <<>>
    /\ exit = <<>>
    /\ install = "none"
    /\ installResult = <<>>
    /\ svc = "none"
    /\ svcResult = <<>>
    /\ svcCmd = <<>>
    /\ childEnv = <<>>
    /\ installSpawns = 0
    /\ svcSpawns = 0
    /\ installWaited = FALSE
    /\ installKilled = FALSE
    /\ svcWaited = FALSE
    /\ svcTermRequested = FALSE
    /\ termRaised = FALSE
    /\ intrAt = <<>>
    /\ reached = {"parse"}

\* main moves to position p
Goto(p) == /\ pc' = p
           /\ reached' = reached \cup {p}
           /\ exit' = exit

\* the launcher process ends with status n
Terminate(n) == /\ pc' = "done"
                /\ reached' = reached \cup {"done"}
                /\ exit' = <<n>>

-----------------------------------------------------------------------------
(* main, lines 16-20: parse_args.  A --port text that int() rejects ends   *)
(* the program through parser.error.                                       *)

ParseArgs_default_only ==
    /\ pc = "parse"
    /\ IF argv.port = <<>> \/ IsIntText(argv.port[1])
       THEN /\ args' = <<[dev |-> argv.dev, port |-> DefaultPort,
                          force_install |-> argv.force_install]>>
            /\ Goto("check_node")
       ELSE /\ args' = args
            /\ Terminate(UsageError)
    /\ UNCHANGED <<inputs, children, history, intrAt,
                   need_install, code, env, cmd, procBound, returncode>>

ParseArgs ==
    /\ pc = "parse"
    /\ IF argv.port = <<>>
       THEN /\ args' = <<[dev |-> argv.dev, port |-> DefaultPort,
                          force_install |-> argv.force_install]>>
            /\ Goto("check_node")
       ELSE IF IsIntText(argv.port[1])
       THEN /\ args' = <<[dev |-> argv.dev, port |-> int(argv.port[1]),
                          force_install |-> argv.force_install]>>
            /\ Goto("check_node")
       ELSE /\ args' = args
            /\ Terminate(UsageError)
    /\ UNCHANGED <<inputs, children, history, intrAt,
                   need_install, code, env, cmd, procBound, returncode>>

(* lines 22-24 *)
CheckNode_warn_only ==
    /\ pc = "check_node"
    /\ Goto("check_npm")
    /\ UNCHANGED <<inputs, children, history, intrAt, locals>>

CheckNode ==
    /\ pc = "check_node"
    /\ IF check_cmd("node") THEN Goto("check_npm") ELSE Terminate(1)
    /\ UNCHANGED <<inputs, children, history, intrAt, locals>>

(* lines 25-27 *)
CheckNpm ==
    /\ pc = "check_npm"
    /\ IF check_cmd(exe("npm")) THEN Goto("need_install") ELSE Terminate(1)
    /\ UNCHANGED <<inputs, children, history, intrAt, locals>>

(* lines 29-32: decide, and start npm install.  subprocess.call then blocks *)
(* at "install_wait" until the child has ended.                             *)
StartInstall ==
    /\ pc = "need_install"
    /\ need_install' = NeedInstall(args[1].force_install, dirExists)
    /\ IF need_install'
       THEN /\ install' = "running"
            /\ installSpawns' = installSpawns + 1
            /\ Goto("install_wait")
       ELSE /\ UNCHANGED <<install, installSpawns>>
            /\ Goto("build_env")
    /\ UNCHANGED <<inputs, history, intrAt, installResult, svc, svcResult, svcCmd,
                   childEnv, svcSpawns, args, code, env, cmd, procBound, returncode>>

(* the npm install process ends *)
InstallExit ==
    /\ install = "running"
    /\ install' = "exited"
    /\ \E r \in ChildOutcomes : installResult' = r
    /\ UNCHANGED <<inputs, locals, history, intrAt, pc, reached, exit,
                   svc, svcResult, svcCmd, childEnv, installSpawns, svcSpawns>>

(* line 32: subprocess.call returns the child's returncode *)
InstallReturn ==
    /\ pc = "install_wait"
    /\ install = "exited"
    /\ code' = <<Returncode(installResult)>>
    /\ installWaited' = TRUE
    /\ Goto("install_ret")
    /\ UNCHANGED <<inputs, children, intrAt, args, need_install, env, cmd, procBound,
                   returncode, installKilled, svcWaited, svcTermRequested, termRaised>>

(* lines 33-34 *)
CheckInstallCode_ignore ==
    /\ pc = "install_ret"
    /\ Goto("build_env")
    /\ UNCHANGED <<inputs, children, history, intrAt, locals>>

CheckInstallCode_exit1 ==
    /\ pc = "install_ret"
    /\ IF code[1] # 0 THEN Terminate(1) ELSE Goto("build_env")
    /\ UNCHANGED <<inputs, children, history, intrAt, locals>>

CheckInstallCode ==
    /\ pc = "install_ret"
    /\ IF code[1] # 0 THEN Terminate(ExitStatus(code[1])) ELSE Goto("build_env")
    /\ UNCHANGED <<inputs, children, history, intrAt, locals>>

(* lines 36-40: the child's environment and command.  The try statement of *)
(* line 41 is entered at "popen".                                          *)
BuildEnv ==
    /\ pc = "build_env"
    /\ env' = ChildEnvironment(osEnviron, args[1].port)
    /\ cmd' = Command(args[1].dev)
    /\ Goto("popen")
    /\ UNCHANGED <<inputs, children, history, intrAt,
                   args, need_install, code, procBound, returncode>>

(* line 42, first half: Popen starts the child.  The name proc is not bound *)
(* until Popen has returned and the assignment has run.                     *)
PopenFork ==
    /\ pc = "popen"
    /\ svc' = "running"
    /\ svcSpawns' = svcSpawns + 1
    /\ svcCmd' = cmd
    /\ childEnv' = env
    /\ Goto("popen_inflight")
    /\ UNCHANGED <<inputs, locals, history, intrAt,
                   install, installResult, svcResult, installSpawns>>

(* line 42, second half: proc = <the Popen object> *)
PopenReturn ==
    /\ pc = "popen_inflight"
    /\ procBound' = TRUE
    /\ Goto("wait")
    /\ UNCHANGED <<inputs, children, history, intrAt,
                   args, need_install, code, env, cmd, returncode>>

(* the service process ends *)
SvcExit ==
    /\ svc = "running"
    /\ svc' = "exited"
    /\ \E r \in ChildOutcomes : svcResult' = r
    /\ UNCHANGED <<inputs, locals, history, intrAt, pc, reached, exit,
                   install, installResult, svcCmd, childEnv, installSpawns, svcSpawns>>

(* line 43: proc.wait() returns *)
WaitReturn ==
    /\ pc = "wait"
    /\ svc = "exited"
    /\ returncode' = <<Returncode(svcResult)>>
    /\ svcWaited' = TRUE
    /\ Goto("sys_exit")
    /\ UNCHANGED <<inputs, children, intrAt, args, need_install, code, env, cmd,
                   procBound, installWaited, installKilled, svcTermRequested, termRaised>>

(* line 44 *)
SysExit_flag ==
    /\ pc = "sys_exit"
    /\ Terminate(IF returncode[1] = 0 THEN 0 ELSE 1)
    /\ UNCHANGED <<inputs, children, history, intrAt, locals>>

SysExit ==
    /\ pc = "sys_exit"
    /\ Terminate(ExitStatus(returncode[1]))
    /\ UNCHANGED <<inputs, children, history, intrAt, locals>>

(* The positions covered by the try statement of lines 41-44. *)
InTry == {"popen", "popen_inflight", "wait", "sys_exit"}

InTry_with_install == {"install_wait", "popen", "popen_inflight", "wait", "sys_exit"}

(* An interrupt arrives: KeyboardInterrupt is raised at the position of    *)
(* main.  Inside the try statement line 45 catches it.  Anywhere else it   *)
(* leaves main and ends the interpreter; when main is blocked in           *)
(* subprocess.call, that call first kills and reaps its child.             *)
InterruptAt(covered) ==
    /\ pc # "done"
    /\ Len(intrAt) < MaxInterrupts
    /\ intrAt' = Append(intrAt, pc)
    /\ IF pc \in covered
       THEN /\ Goto("handler")
            /\ UNCHANGED <<install, installResult, installWaited, installKilled>>
       ELSE /\ \E s \in UncaughtInterruptStatus : Terminate(s)
            /\ IF pc = "install_wait"
               THEN /\ installKilled' = TRUE
                    /\ installWaited' = TRUE
                    /\ install' = "exited"
                    /\ installResult' = IF install = "running"
                                        THEN <<"signal", SIGKILL>> ELSE installResult
               ELSE UNCHANGED <<install, installResult, installWaited, installKilled>>
    /\ UNCHANGED <<inputs, locals, svc, svcResult, svcCmd, childEnv, installSpawns,
                   svcSpawns, svcWaited, svcTermRequested, termRaised>>

Interrupt_install_covered == InterruptAt(InTry_with_install)

Interrupt == InterruptAt(InTry)

(* lines 45-50: the handler.  proc.terminate() raises UnboundLocalError    *)
(* when proc was never bound, and may raise OSError otherwise; except      *)
(* Exception swallows both, main returns and the interpreter ends with 0.  *)
HandleInterrupt_reraise ==
    /\ pc = "handler"
    /\ IF procBound
       THEN /\ svcTermRequested' = TRUE
            /\ \E raised \in BOOLEAN : termRaised' = raised
       ELSE /\ termRaised' = TRUE
            /\ UNCHANGED svcTermRequested
    /\ Terminate(IF termRaised' THEN 1 ELSE 0)
    /\ UNCHANGED <<inputs, children, locals, intrAt,
                   installWaited, installKilled, svcWaited>>

HandleInterrupt ==
    /\ pc = "handler"
    /\ IF procBound
       THEN /\ svcTermRequested' = TRUE
            /\ \E raised \in BOOLEAN : termRaised' = raised
       ELSE /\ termRaised' = TRUE
            /\ UNCHANGED svcTermRequested
    /\ Terminate(0)
    /\ UNCHANGED <<inputs, children, locals, intrAt,
                   installWaited, installKilled, svcWaited>>

Next ==
    \/ ParseArgs
    \/ CheckNode
    \/ CheckNpm
    \/ StartInstall
    \/ InstallExit
    \/ InstallReturn
    \/ CheckInstallCode
    \/ BuildEnv
    \/ PopenFork
    \/ PopenReturn
    \/ SvcExit
    \/ WaitReturn
    \/ SysExit
    \/ Interrupt
    \/ HandleInterrupt

Spec == Init /\ [][Next]_vars

-----------------------------------------------------------------------------
(* Properties *)

NoInterrupt == intrAt = <<>>

ToolchainMissing == ~check_cmd("node") \/ ~check_cmd(exe("npm"))

\* The number a string of decimal digits denotes, summed position by position.
DecimalValue(s) ==
    LET f[i \in 0..Len(s)] == IF i = 0 THEN 0 ELSE f[i - 1] * 10 + DigitVal(s[i])
    IN  f[Len(s)]

\* s is the decimal string form of the integer n: "-" exactly when n is
\* negative, then the digits of |n| without a leading zero.
IsDecimalOf(s, n) ==
    LET neg == Len(s) > 0 /\ s[1] = "-"
        mag == IF neg THEN Tail(s) ELSE s
    IN  /\ neg <=> n < 0
        /\ Len(mag) > 0
        /\ \A i \in 1..Len(mag) : IsDigit(mag[i])
        /\ Len(mag) > 1 => mag[1] # "0"
        /\ DecimalValue(mag) = IF n < 0 THEN 0 - n ELSE n

\* The integer a --port text denotes.
TextDenotes(t) ==
    IF t[1] = "-" THEN 0 - DecimalValue(Tail(t))
    ELSE IF t[1] = "+" THEN DecimalValue(Tail(t))
    ELSE DecimalValue(t)

\* C1: if npm install ran and exited with a non-zero code C, the service
\* process is never spawned, and a launcher that ends (without having been
\* interrupted) ends with exit status C.
C1_InstallFailurePropagates ==
    (installResult # <<>> /\ installResult[1] = "exit" /\ installResult[2] # 0)
        => /\ svcSpawns = 0
           /\ (pc = "done" /\ NoInterrupt) => exit = <<installResult[2]>>

C1_Witness ==
    /\ pc = "done"
    /\ NoInterrupt
    /\ installResult = <<"exit", 255>>
    /\ exit = <<255>>

\* C2: if the service process exited with code N (zero or not) and the
\* launcher ended on the normal path (no interrupt), the launcher's exit
\* status is N.
C2_ServiceExitCodePropagates ==
    (pc = "done" /\ NoInterrupt /\ svcResult # <<>> /\ svcResult[1] = "exit")
        => exit = <<svcResult[2]>>

C2_Witness ==
    /\ pc = "done"
    /\ NoInterrupt
    /\ svcWaited
    /\ svcResult = <<"exit", 2>>

\* C3: if node or npm cannot be located, no subprocess is ever spawned
\* (neither install nor service), whatever the flags and the dependency
\* directory, and once the arguments have parsed a launcher that ends
\* (without having been interrupted) ends with status 1.
C3_ToolchainMissingExits1 ==
    ToolchainMissing
        => /\ installSpawns = 0
           /\ svcSpawns = 0
           /\ install = "none"
           /\ svc = "none"
           /\ (pc = "done" /\ NoInterrupt /\ args # <<>>) => exit = <<1>>

C3_Witness ==
    /\ pc = "done"
    /\ NoInterrupt
    /\ args # <<>>
    /\ check_cmd("node")
    /\ ~check_cmd(exe("npm"))
    /\ ~dirExists
    /\ argv.force_install
    /\ exit = <<1>>

\* C4: once a run has passed both toolchain checks and taken the decision of
\* lines 29-30, npm install has been started if and only if --force-install
\* is set or node_modules does not exist; before that decision it has not
\* been started at all.
C4_InstallIffNeeded ==
    LET decided == reached \cap {"install_wait", "build_env"} # {}
    IN  /\ decided => (installSpawns = 1 <=> (argv.force_install \/ ~dirExists))
        /\ ~decided => installSpawns = 0

C4_Witness ==
    /\ installSpawns = 1
    /\ ~dirExists
    /\ ~argv.force_install
    /\ "build_env" \in reached

\* C5: at most one install process and at most one service process are
\* spawned; when install was triggered, the service process exists only
\* after the install process has exited with code 0 and been waited for; the
\* two never run at the same time.
C5_InstallThenService ==
    /\ installSpawns <= 1
    /\ svcSpawns <= 1
    /\ ~(install = "running" /\ svc = "running")
    /\ (installSpawns = 1 /\ svcSpawns = 1)
          => /\ install = "exited"
             /\ installResult = <<"exit", 0>>
             /\ installWaited

C5_Witness ==
    /\ installSpawns = 1
    /\ svcSpawns = 1
    /\ svc = "running"

\* C6: the environment the service process is started with has PORT equal
\* to the decimal string form of the parsed port (the default 3001 when
\* --port is omitted) and every other variable exactly as in the launcher's
\* own environment, and the launcher's own environment never changes.
C6_ChildEnvironment ==
    /\ [](svcSpawns = 1 =>
            /\ DOMAIN childEnv = (DOMAIN osEnviron) \cup {"PORT"}
            /\ IsDecimalOf(childEnv["PORT"], args[1].port)
            /\ argv.port = <<>> => childEnv["PORT"] = <<"3","0","0","1">>
            /\ \A v \in (DOMAIN osEnviron) \ {"PORT"} : childEnv[v] = osEnviron[v])
    /\ [][osEnviron' = osEnviron]_vars

C6_Witness ==
    /\ svcSpawns = 1
    /\ args[1].port = 0 - 5
    /\ childEnv["PORT"] = <<"-","5">>
    /\ "PORT" \in DOMAIN osEnviron
    /\ "HOME" \in DOMAIN osEnviron

\* C7: if an interrupt arrives while the launcher is blocked in proc.wait()
\* (and it is the only interrupt of the run), the launcher calls
\* proc.terminate() on the service child and ends with exit status 0,
\* whether or not that call raised.
C7_InterruptDuringWait ==
    (pc = "done" /\ intrAt = <<"wait">>)
        => /\ svcTermRequested
           /\ exit = <<0>>

C7_Witness ==
    /\ pc = "done"
    /\ intrAt = <<"wait">>
    /\ svc = "running"
    /\ svcTermRequested
    /\ termRaised

\* C8 as claimed: after argument parsing has succeeded the port held in the
\* options is a positive integer.
C8_PortPositive ==
    args # <<>> => args[1].port > 0

\* C8 as amended: after argument parsing has succeeded the port held in the
\* options is the integer that the --port text denotes (3001 when omitted),
\* whatever its sign, and the options never change once constructed.
C8_OptionsParsedOnce ==
    /\ [](args # <<>> =>
            /\ args[1].port = IF argv.port = <<>> THEN 3001
                              ELSE TextDenotes(argv.port[1])
            /\ args[1].dev = argv.dev
            /\ args[1].force_install = argv.force_install)
    /\ [][args # <<>> => args' = args]_vars

C8_Witness ==
    /\ svcSpawns = 1
    /\ args # <<>>
    /\ args[1].port = 0
    /\ argv.port = <<<<"0">>>>

\* C9: whenever the launcher has exited, every process it spawned has been
\* waited for until it exited or has been sent a termination request.
\* Stated for the runs in which at most one interrupt arrived, which the
\* claim covers among all others.
C9_ChildrenReleased ==
    (pc = "done" /\ Len(intrAt) <= 1)
        => /\ installSpawns = 1 => (installWaited \/ installKilled)
           /\ svcSpawns = 1 => (svcWaited \/ svcTermRequested)

\* C10: an interrupt that arrives while the launcher is blocked on npm
\* install is not intercepted: the handler is not entered, the service
\* process is never spawned, and the launcher ends with a non-zero status.
C10_InterruptDuringInstall ==
    (intrAt # <<>> /\ intrAt[1] = "install_wait")
        => /\ pc = "done"
           /\ "handler" \notin reached
           /\ svcSpawns = 0
           /\ exit # <<>>
           /\ exit[1] # 0

C10_Witness ==
    /\ intrAt = <<"install_wait">>
    /\ install = "exited"
    /\ pc = "done"

====
